---- MODULE Spec2Model ----
(***************************************************************************)
(* A state-machine model of libMesh's PetscNonlinearSolver                 *)
(* (src/solvers/petsc_nonlinear_solver.C): the solver object, the SNES     *)
(* handle it owns, the three C-linkage callbacks PETSc invokes during      *)
(* SNESSolve, and the solve() orchestrator.                                *)
(*                                                                         *)
(* The handlers are operators from a world record                          *)
(*   S = [solver, petsc, sys, mem, trace, err, loc, inp, out]              *)
(* to a world record, composed exactly as the C++ calls compose (solve     *)
(* calls init and clear, the destructor calls clear).  An action applies   *)
(* one handler to the current world and commits the result.  A fatal       *)
(* libmesh_error_msg stops the handler where it stands: every later step   *)
(* is skipped and the effects made so far are kept.                        *)
(***************************************************************************)
EXTENDS Integers, Sequences, FiniteSets, TLC

VARIABLES
  solver,  \* the PetscNonlinearSolver object (its fields and the base class's)
  petsc,   \* the PETSc side: SNES handles and what is attached to the live one
  sys,     \* the NonlinearImplicitSystem: solution, current_local_solution, constraints
  mem,     \* contents of the numeric buffers (the Vec / Mat storage), by storage id
  trace,   \* the calls made by the last init / clear / solve / destructor, in order
  call,    \* the last callback invocation made by the engine: inputs and outcome
  err,     \* "none", or the message of the fatal error raised
  pc       \* "idle" | "solving": inside SNESSolve, the engine running |
           \* "returned": inside SNESSolve, a callback has just returned |
           \* "aborted": a fatal error was raised | "destroyed"

vars == <<solver, petsc, sys, mem, trace, call, err, pc>>

---------------------------------------------------------------------------
(* Bounds of the model.                                                    *)

\* SNES handles created over one run (each init on a cleared solver makes one).
MaxHandles == 2
\* Forms (function pointers / objects) registered at the same time.
MaxRegistered == 3
\* Nonlinear iterations the engine takes inside one SNESSolve.
MaxIter == 1
\* Linear iterations the engine reports for one SNESSolve.
MaxLinIts == 1
\* Vectors a subspace provider returns.
MaxModes == 1
\* Degrees of freedom of the system.
NDofs == 2
\* The vectors a subspace provider returns, where their contents matter.
MaxVectors == 2
\* The coordinates of a TypeVector, in units of half a TOLERANCE.
MaxCoord == 3

---------------------------------------------------------------------------
(* The registrable forms: the public pointers of NonlinearSolver<T>.       *)

ResidualForms == {"residual", "residual_object", "matvec", "residual_and_jacobian_object"}
JacobianForms == {"jacobian", "jacobian_object", "matvec", "residual_and_jacobian_object"}
PostcheckForms == {"postcheck", "postcheck_object"}
SubspaceForms ==
  {"nullspace", "nullspace_object", "transpose_nullspace",
   "transpose_nullspace_object", "nearnullspace", "nearnullspace_object"}
OtherForms == {"user_presolve", "_preconditioner", "_solver_configuration"}
CallbackForms == ResidualForms \cup JacobianForms \cup PostcheckForms
Forms == CallbackForms \cup SubspaceForms \cup OtherForms

Registered(s) == {f \in Forms : s[f]}

Dofs == 1..NDofs

---------------------------------------------------------------------------
(* Construction.                                                           *)

\* PetscNonlinearSolver::PetscNonlinearSolver: every pointer of the base
\* class is null, the solver is not initialized.  The constructor gives _snes
\* no value: it holds whatever was in memory, h.
PetscNonlinearSolver(h) ==
  [f \in Forms |-> FALSE] @@
  [ _is_initialized |-> FALSE,
    _snes |-> h,
    _reason |-> 0,
    _n_linear_iterations |-> 0,
    _current_nonlinear_iteration_number |-> 0,
    _zero_out_residual |-> TRUE,
    _zero_out_jacobian |-> TRUE,
    _default_monitor |-> TRUE,
    converged |-> FALSE ]

\* What SNESCreate hands back: a handle with nothing attached.
FreshSnes ==
  [ monitor |-> FALSE, postcheck |-> FALSE, shell_pc |-> FALSE,
    function |-> FALSE, jacobian |-> FALSE, iter |-> 0, reason |-> 0 ]

\* No handle exists before the first SNESCreate.
PetscInit ==
  [ n_created |-> 0,          \* handles created so far: ids 1..n_created
    live |-> {},              \* the handles created and not yet destroyed
    n_destroyed |-> [h \in 1..MaxHandles |-> 0],
    fault |-> FALSE,          \* an engine call was made on a handle that is not live
    snes |-> FreshSnes,       \* what is attached to the handle solver._snes names
    mat |-> {},               \* the subspaces attached to the Jacobian matrix
    reported |-> << >> ]      \* the reason the last SNESSolve ended with, as
                              \* long as no handle has been created since

---------------------------------------------------------------------------
(* Plumbing of the world record.                                           *)

\* The handler-local part of a world: the PetscVector wrappers a callback
\* builds around the engine's buffers (each names the storage it wraps), the
\* inputs of the call that are not buffers, and the callback's out-parameters.
Locals(inp) ==
  [ loc |-> [X_global |-> "x", petsc_w |-> "w",
             changed_search_direction |-> FALSE, changed_new_soln |-> FALSE,
             n_iterations |-> 0, final_residual_norm |-> 0,
             \* what the user's computation was handed, once it has run
             seen |-> << >>],
    inp |-> inp,
    out |-> [changed_y |-> FALSE, changed_w |-> FALSE] ]

NoInput == [none |-> TRUE]

\* The world a handler starts from: the current state, an empty trace.
WorldWith(m, inp) ==
  [solver |-> solver, petsc |-> petsc, sys |-> sys, mem |-> m,
   trace |-> << >>, err |-> err] @@ Locals(inp)

World == WorldWith(mem, NoInput)

Commit(S) ==
  /\ solver' = S.solver
  /\ petsc' = S.petsc
  /\ sys' = S.sys
  /\ mem' = S.mem
  /\ trace' = S.trace
  /\ err' = S.err

\* One more call recorded on the handler's trace.
Ev(S, e) == [S EXCEPT !.trace = Append(@, e)]

\* A call into PETSc on the handle solver._snes: a fault when that handle is
\* not live (never created, or already destroyed).
OnSnes(S, e) ==
  IF S.solver._snes \in S.petsc.live
  THEN Ev(S, e)
  ELSE [Ev(S, e) EXCEPT !.petsc.fault = TRUE]

\* Sequencing: Op applied to the world S has become.  (S is worked out once
\* and handed on as a value.)
Then(S, Op(_)) == CHOOSE T \in {Op(v) : v \in {S}} : TRUE

\* libmesh_error_msg: the fatal error is raised; nothing after it runs.
Fatal(S, msg) == [S EXCEPT !.err = msg]
Ok(S) == S.err = "none"

---------------------------------------------------------------------------
(* PETSc's handle management, as init and clear use it.                    *)

\* SNESCreate(comm, &_snes): a new handle, live, with nothing attached.
SNESCreate(S) ==
  Ev([S EXCEPT !.petsc.n_created = @ + 1,
               !.petsc.live = @ \cup {S.petsc.n_created + 1},
               !.petsc.snes = FreshSnes,
               !.petsc.reported = << >>,
               !.solver._snes = S.petsc.n_created + 1], "SNESCreate")

\* LibMeshSNESDestroy(&_snes): the handle is released, and what was attached
\* to it goes with it; releasing a handle that is not live is a fault (a
\* double release).  The solver's copy of the handle is left as it is: the
\* code relies on _is_initialized alone.
LibMeshSNESDestroy(S) ==
  IF S.solver._snes \in S.petsc.live
  THEN [Ev(S, "SNESDestroy")
          EXCEPT !.petsc.live = @ \ {S.solver._snes},
                 !.petsc.n_destroyed[S.solver._snes] = @ + 1,
                 !.petsc.snes = FreshSnes]
  ELSE IF S.solver._snes \in 1..S.petsc.n_created
  THEN [Ev(S, "SNESDestroy")
          EXCEPT !.petsc.fault = TRUE,
                 !.petsc.n_destroyed[S.solver._snes] = @ + 1]
  ELSE [Ev(S, "SNESDestroy") EXCEPT !.petsc.fault = TRUE]

---------------------------------------------------------------------------
(* PetscNonlinearSolver::clear and PetscNonlinearSolver::init.             *)

\* Mutant of clear_body: the iteration number is not reset.
clear_body_no_reset(S) ==
  LibMeshSNESDestroy([S EXCEPT !.solver._is_initialized = FALSE])

\* Mutant of clear_body: the outcome of the last solve is reset as well.
clear_body_forgets(S) ==
  [LibMeshSNESDestroy([S EXCEPT !.solver._is_initialized = FALSE])
     EXCEPT !.solver._current_nonlinear_iteration_number = 0,
            !.solver._n_linear_iterations = 0,
            !.solver._reason = 0]

\* The body of clear's "if (this->initialized())" block.
clear_body(S) ==
  [LibMeshSNESDestroy([S EXCEPT !.solver._is_initialized = FALSE])
     EXCEPT !.solver._current_nonlinear_iteration_number = 0]

\* Mutant of clear: the initialized() guard is dropped.
clear_unguarded(S) == Then(S, clear_body)

clear(S) == IF S.solver._is_initialized THEN Then(S, clear_body) ELSE S

\* init: SNESMonitorSet, unless the default monitor is switched off.
init_monitor(S) ==
  IF S.solver._default_monitor
  THEN [OnSnes(S, "SNESMonitorSet") EXCEPT !.petsc.snes.monitor = TRUE]
  ELSE S

\* init: the SolverConfiguration object's options.
init_solver_configuration(S) ==
  IF S.solver._solver_configuration THEN Ev(S, "set_options_during_init") ELSE S

\* init: the preconditioner object becomes the KSP's shell preconditioner.
init_preconditioner(S) ==
  IF S.solver._preconditioner
  THEN [Then(Then(OnSnes(S, "SNESGetKSP"),
                  LAMBDA T : Ev(T, "preconditioner->init")),
             LAMBDA T : Ev(T, "PCSetType(PCSHELL)"))
          EXCEPT !.petsc.snes.shell_pc = TRUE]
  ELSE S

\* The body of init's "if (!this->initialized())" block.
init_create(S, name) ==
  Then(Then(Then(Then(Then(
    SNESCreate([S EXCEPT !.solver._is_initialized = TRUE]),
    LAMBDA T : IF name THEN OnSnes(T, "SNESSetOptionsPrefix") ELSE T),
    LAMBDA T : OnSnes(T, "SNESSetDM")),
    init_monitor),
    init_solver_configuration),
    init_preconditioner)

\* The tail of init: the line-search post-check hook, attached on every call
\* on which a user post-check is registered.
init_postcheck(S) ==
  IF S.solver.postcheck \/ S.solver.postcheck_object
  THEN [OnSnes(S, "SNESLineSearchSetPostCheck") EXCEPT !.petsc.snes.postcheck = TRUE]
  ELSE S

\* Mutant of init: the hook is attached only by the init that creates the
\* handle.
init_postcheck_on_create(S, name) ==
  IF ~S.solver._is_initialized THEN Then(init_create(S, name), init_postcheck) ELSE S

\* Mutant of init: the initialized() guard is dropped.
init_unguarded(S, name) == Then(init_create(S, name), init_postcheck)

init(S, name) ==
  Then(IF ~S.solver._is_initialized THEN init_create(S, name) ELSE S, init_postcheck)

\* PetscNonlinearSolver::~PetscNonlinearSolver
destructor(S) == clear(S)

---------------------------------------------------------------------------
(* The system, its vectors and its constraints.  PetscVector, DofMap and   *)
(* NonlinearImplicitSystem are collaborators of this file.                 *)

Zero == [d \in Dofs |-> 0]
Vecs(V) == [Dofs -> V]
VAdd(a, b) == [d \in Dofs |-> a[d] + b[d]]

\* The values a buffer entry holds on entry to a callback and the amounts a
\* user computation adds to an entry.
Vals == {0, 1}
\* Buffers that are all zero: for the specifications in which contents play no part.
NoVals == {0}

\* The constraint sets a system may carry: none, or the first degree of
\* freedom held at a required value.
ConstraintSets(V) == { << >> } \cup { [d \in {1} |-> v] : v \in V }

\* The system after construction: the canonical solution wraps its own
\* storage "sol"; all of it is zero.
SystemInit(c) ==
  [ solution |-> [vec |-> "sol"],
    current_local_solution |-> Zero,
    constraints |-> c ]

\* DofMap::n_constrained_dofs
n_constrained_dofs(S) == Cardinality(DOMAIN S.sys.constraints)

\* PetscVector::swap between the local wrapper `w` and the system's
\* solution vector: the two exchange the storage they wrap, nothing is copied.
swap(S, w) ==
  Ev([S EXCEPT !.loc[w] = S.sys.solution.vec,
               !.sys.solution.vec = S.loc[w]], "swap")

\* System::update: current_local_solution is refreshed from whatever storage
\* the solution vector wraps at the time.
update(S) ==
  Ev([S EXCEPT !.sys.current_local_solution = S.mem[S.sys.solution.vec]], "update")

Enforced(c, v) == [d \in Dofs |-> IF d \in DOMAIN c THEN c[d] ELSE v[d]]

\* DofMap::enforce_constraints_exactly(sys, sys.current_local_solution.get())
enforce_constraints_exactly_local(S) ==
  Ev([S EXCEPT !.sys.current_local_solution = Enforced(S.sys.constraints, @)],
     "enforce_constraints_exactly(local)")

\* DofMap::enforce_constraints_exactly(sys): on the solution vector itself,
\* that is on the storage it wraps at the time.
enforce_constraints_exactly(S) ==
  Ev([S EXCEPT !.mem[S.sys.solution.vec] = Enforced(S.sys.constraints, @)],
     "enforce_constraints_exactly(solution)")

---------------------------------------------------------------------------
(* The user's computations.  The model takes them to do what they are      *)
(* called for and nothing else: they accumulate into the output they are   *)
(* handed and leave the solver alone.                                      *)

\* The calls that run a user computation, as they appear on a trace.
ResidualCalls ==
  {"residual(X,R)", "residual_object->residual(X,R)", "matvec(X,&R,NULL)",
   "residual_and_jacobian_object->residual_and_jacobian(X,&R,NULL)"}
JacobianCalls ==
  {"jacobian(X,PC)", "jacobian_object->jacobian(X,PC)", "matvec(X,NULL,&PC)",
   "residual_and_jacobian_object->residual_and_jacobian(X,NULL,&PC)"}
PostcheckCalls == {"postcheck(x,y,w)", "postcheck_object->postcheck(x,y,w)"}
UserCalls == ResidualCalls \cup JacobianCalls \cup PostcheckCalls

\* The user calls on a trace, in order.
UserCallsOf(t) == SelectSeq(t, LAMBDA e : e \in UserCalls)

\* What a user computation is handed and may look at: X, which is
\* *sys.current_local_solution, the output as it stands, and the solver's
\* iteration number.
Seen(S, out) ==
  [ X |-> S.sys.current_local_solution,
    out |-> S.mem[out],
    iter |-> S.solver._current_nonlinear_iteration_number ]

\* A residual computation invoked as `form`: it adds its contribution to R.
user_residual(S, form) ==
  Ev([S EXCEPT !.mem.r = VAdd(@, S.inp.contrib), !.loc.seen = Seen(S, "r")], form)

\* A Jacobian computation invoked as `form`: it adds its contribution to PC.
user_jacobian(S, form) ==
  Ev([S EXCEPT !.mem.pc = VAdd(@, S.inp.contrib), !.loc.seen = Seen(S, "pc")], form)

Ones == [d \in Dofs |-> 1]

\* A user post-check invoked as `form`: it sets its two flags, and what it
\* reports changed it has changed.
user_postcheck(S, form) ==
  Ev([S EXCEPT !.mem.y = IF S.inp.changed_search_direction THEN VAdd(@, Ones) ELSE @,
               !.mem.w = IF S.inp.changed_new_soln THEN VAdd(@, Ones) ELSE @,
               !.loc.changed_search_direction = S.inp.changed_search_direction,
               !.loc.changed_new_soln = S.inp.changed_new_soln], form)

---------------------------------------------------------------------------
(* __libmesh_petsc_snes_residual                                           *)

\* SNESGetIterationNumber, stored on the solver for the user's computation.
read_iteration_number(S) ==
  [OnSnes(S, "SNESGetIterationNumber")
     EXCEPT !.solver._current_nonlinear_iteration_number = S.petsc.snes.iter]

\* Mutant of localize_trial: the trial values are copied into the solution
\* instead of being swapped in and out.
localize_trial_by_copy(S) ==
  Then([S EXCEPT !.mem[S.sys.solution.vec] = S.mem[S.loc.X_global]], update)

\* X_global.swap(X_sys); sys.update(); X_global.swap(X_sys);
localize_trial(S) ==
  Then(Then(swap(S, "X_global"), update), LAMBDA T : swap(T, "X_global"))

\* Mutant of residual_zero: R is never cleared.
residual_zero_never(S) == S

residual_zero(S) ==
  IF S.solver._zero_out_residual
  THEN Ev([S EXCEPT !.mem.r = Zero], "R.zero")
  ELSE S

\* Mutant of residual_dispatch: the combined function is tried before the
\* plain forms.
residual_dispatch_matvec_first(S) ==
  IF S.solver.residual /\ S.solver.residual_object
  THEN Fatal(S, "ERROR: cannot specify both a function and object to compute the Residual!")
  ELSE IF S.solver.matvec /\ S.solver.residual_and_jacobian_object
  THEN Fatal(S, "ERROR: cannot specify both a function and object to compute the combined Residual & Jacobian!")
  ELSE IF S.solver.matvec
  THEN user_residual(S, "matvec(X,&R,NULL)")
  ELSE IF S.solver.residual
  THEN user_residual(S, "residual(X,R)")
  ELSE IF S.solver.residual_object
  THEN user_residual(S, "residual_object->residual(X,R)")
  ELSE IF S.solver.residual_and_jacobian_object
  THEN user_residual(S, "residual_and_jacobian_object->residual_and_jacobian(X,&R,NULL)")
  ELSE Fatal(S, "Error! Unable to compute residual and/or Jacobian!")

\* Mutant of residual_dispatch: the check of the combined pair is missing.
residual_dispatch_unchecked(S) ==
  IF S.solver.residual /\ S.solver.residual_object
  THEN Fatal(S, "ERROR: cannot specify both a function and object to compute the Residual!")
  ELSE IF S.solver.residual
  THEN user_residual(S, "residual(X,R)")
  ELSE IF S.solver.residual_object
  THEN user_residual(S, "residual_object->residual(X,R)")
  ELSE IF S.solver.matvec
  THEN user_residual(S, "matvec(X,&R,NULL)")
  ELSE IF S.solver.residual_and_jacobian_object
  THEN user_residual(S, "residual_and_jacobian_object->residual_and_jacobian(X,&R,NULL)")
  ELSE Fatal(S, "Error! Unable to compute residual and/or Jacobian!")

\* The two ambiguity checks and the if / else-if chain.
residual_dispatch(S) ==
  IF S.solver.residual /\ S.solver.residual_object
  THEN Fatal(S, "ERROR: cannot specify both a function and object to compute the Residual!")
  ELSE IF S.solver.matvec /\ S.solver.residual_and_jacobian_object
  THEN Fatal(S, "ERROR: cannot specify both a function and object to compute the combined Residual & Jacobian!")
  ELSE IF S.solver.residual
  THEN user_residual(S, "residual(X,R)")
  ELSE IF S.solver.residual_object
  THEN user_residual(S, "residual_object->residual(X,R)")
  ELSE IF S.solver.matvec
  THEN user_residual(S, "matvec(X,&R,NULL)")
  ELSE IF S.solver.residual_and_jacobian_object
  THEN user_residual(S, "residual_and_jacobian_object->residual_and_jacobian(X,&R,NULL)")
  ELSE Fatal(S, "Error! Unable to compute residual and/or Jacobian!")

\* R.close(), reached unless the dispatch raised.
residual_close(S) == IF Ok(S) THEN Ev(S, "R.close") ELSE S

\* Mutant of __libmesh_petsc_snes_residual: the configuration is checked
\* first of all.
residual_checked_first(S) ==
  IF ~Ok(residual_dispatch(S))
  THEN residual_dispatch(S)
  ELSE Then(Then(Then(Then(Then(
         read_iteration_number(S),
         localize_trial),
         enforce_constraints_exactly_local),
         residual_zero),
         residual_dispatch),
         residual_close)

\* Mutant of __libmesh_petsc_snes_residual: the constraints are enforced on
\* the replica after the user's computation has run.
residual_enforce_late(S) ==
  Then(Then(Then(Then(Then(
    read_iteration_number(S),
    localize_trial),
    residual_zero),
    residual_dispatch),
    enforce_constraints_exactly_local),
    residual_close)

__libmesh_petsc_snes_residual(S) ==
  Then(Then(Then(Then(Then(
    read_iteration_number(S),
    localize_trial),
    enforce_constraints_exactly_local),
    residual_zero),
    residual_dispatch),
    residual_close)

---------------------------------------------------------------------------
(* __libmesh_petsc_snes_jacobian                                           *)

\* PC.attach_dof_map(...); Jac.attach_dof_map(...);
jacobian_attach_dof_map(S) ==
  [S EXCEPT !.trace = @ \o <<"PC.attach_dof_map", "Jac.attach_dof_map">>]

\* Mutant of jacobian_zero: the true Jacobian is cleared as well.
jacobian_zero_both(S) ==
  IF S.solver._zero_out_jacobian
  THEN Ev(Ev([S EXCEPT !.mem = [b \in DOMAIN S.mem |->
                                  IF b \in {"pc", "jac"} THEN Zero ELSE S.mem[b]]],
             "PC.zero"), "Jac.zero")
  ELSE S

\* if (solver->_zero_out_jacobian) PC.zero();
jacobian_zero(S) ==
  IF S.solver._zero_out_jacobian
  THEN Ev([S EXCEPT !.mem.pc = Zero], "PC.zero")
  ELSE S

\* Mutant of jacobian_dispatch: the combined function is tried before the
\* plain forms.
jacobian_dispatch_matvec_first(S) ==
  IF S.solver.jacobian /\ S.solver.jacobian_object
  THEN Fatal(S, "ERROR: cannot specify both a function and object to compute the Jacobian!")
  ELSE IF S.solver.matvec /\ S.solver.residual_and_jacobian_object
  THEN Fatal(S, "ERROR: cannot specify both a function and object to compute the combined Residual & Jacobian!")
  ELSE IF S.solver.matvec
  THEN user_jacobian(S, "matvec(X,NULL,&PC)")
  ELSE IF S.solver.jacobian
  THEN user_jacobian(S, "jacobian(X,PC)")
  ELSE IF S.solver.jacobian_object
  THEN user_jacobian(S, "jacobian_object->jacobian(X,PC)")
  ELSE IF S.solver.residual_and_jacobian_object
  THEN user_jacobian(S, "residual_and_jacobian_object->residual_and_jacobian(X,NULL,&PC)")
  ELSE Fatal(S, "Error! Unable to compute residual and/or Jacobian!")

jacobian_dispatch(S) ==
  IF S.solver.jacobian /\ S.solver.jacobian_object
  THEN Fatal(S, "ERROR: cannot specify both a function and object to compute the Jacobian!")
  ELSE IF S.solver.matvec /\ S.solver.residual_and_jacobian_object
  THEN Fatal(S, "ERROR: cannot specify both a function and object to compute the combined Residual & Jacobian!")
  ELSE IF S.solver.jacobian
  THEN user_jacobian(S, "jacobian(X,PC)")
  ELSE IF S.solver.jacobian_object
  THEN user_jacobian(S, "jacobian_object->jacobian(X,PC)")
  ELSE IF S.solver.matvec
  THEN user_jacobian(S, "matvec(X,NULL,&PC)")
  ELSE IF S.solver.residual_and_jacobian_object
  THEN user_jacobian(S, "residual_and_jacobian_object->residual_and_jacobian(X,NULL,&PC)")
  ELSE Fatal(S, "Error! Unable to compute residual and/or Jacobian!")

\* PC.close(); Jac.close(); reached unless the dispatch raised.
jacobian_close(S) ==
  IF Ok(S) THEN [S EXCEPT !.trace = @ \o <<"PC.close", "Jac.close">>] ELSE S

__libmesh_petsc_snes_jacobian(S) ==
  Then(Then(Then(Then(Then(Then(
    read_iteration_number(S),
    jacobian_attach_dof_map),
    localize_trial),
    enforce_constraints_exactly_local),
    jacobian_zero),
    jacobian_dispatch),
    jacobian_close)

---------------------------------------------------------------------------
(* __libmesh_petsc_snes_postcheck                                          *)

\* *changed_w = PETSC_FALSE; *changed_y = PETSC_FALSE;
postcheck_reset(S) == [S EXCEPT !.out.changed_w = FALSE, !.out.changed_y = FALSE]

\* The user's post-check, function first, if one is registered.
postcheck_user(S) ==
  IF S.solver.postcheck \/ S.solver.postcheck_object
  THEN IF S.solver.postcheck
       THEN user_postcheck([S EXCEPT !.trace = @ \o <<"wrap x", "wrap y">>],
                           "postcheck(x,y,w)")
       ELSE user_postcheck([S EXCEPT !.trace = @ \o <<"wrap x", "wrap y">>],
                           "postcheck_object->postcheck(x,y,w)")
  ELSE S

\* The user's two flags are folded into the outputs.
postcheck_record(S) ==
  [S EXCEPT !.out.changed_y = IF S.loc.changed_search_direction THEN TRUE ELSE @,
            !.out.changed_w = IF S.loc.changed_new_soln THEN TRUE ELSE @]

\* Mutant of postcheck_constraints: w is not swapped back.
postcheck_constraints_no_swap_back(S) ==
  IF n_constrained_dofs(S) # 0
  THEN Then(Then(swap(S, "petsc_w"),
                 enforce_constraints_exactly),
            LAMBDA T : [T EXCEPT !.out.changed_w = TRUE])
  ELSE S

\* Mutant of postcheck_constraints: the enforcement is not reported.
postcheck_constraints_unreported(S) ==
  IF n_constrained_dofs(S) # 0
  THEN Then(Then(swap(S, "petsc_w"),
                 enforce_constraints_exactly),
            LAMBDA T : swap(T, "petsc_w"))
  ELSE S

\* The constraint block: w is swapped into the solution's place, the
\* constraints are enforced on the system, w is swapped back.
postcheck_constraints(S) ==
  IF n_constrained_dofs(S) # 0
  THEN Then(Then(Then(swap(S, "petsc_w"),
                      enforce_constraints_exactly),
                 LAMBDA T : [T EXCEPT !.out.changed_w = TRUE]),
            LAMBDA T : swap(T, "petsc_w"))
  ELSE S

\* Mutant of postcheck_body: the constraints are enforced before the user's
\* post-check runs.
postcheck_body_constraints_first(S) ==
  Then(Then(Then(Ev(S, "wrap w"), postcheck_constraints), postcheck_user),
       postcheck_record)

\* What follows the early return: w is wrapped, the user's post-check runs,
\* the constraints are enforced.
postcheck_body(S) ==
  Then(Then(Then(Ev(S, "wrap w"), postcheck_user), postcheck_record),
       postcheck_constraints)

\* Mutant of postcheck_checked: there is no early return.
postcheck_checked_no_early_return(S) ==
  IF S.solver.postcheck /\ S.solver.postcheck_object
  THEN Fatal(S, "ERROR: cannot specify both a function and object for performing the solve postcheck!")
  ELSE Then(S, postcheck_body)

\* The ambiguity check and the early return.
postcheck_checked(S) ==
  IF S.solver.postcheck /\ S.solver.postcheck_object
  THEN Fatal(S, "ERROR: cannot specify both a function and object for performing the solve postcheck!")
  ELSE IF n_constrained_dofs(S) = 0 /\ ~S.solver.postcheck /\ ~S.solver.postcheck_object
  THEN S
  ELSE Then(S, postcheck_body)

__libmesh_petsc_snes_postcheck(S) == Then(postcheck_reset(S), postcheck_checked)

---------------------------------------------------------------------------
(* PetscNonlinearSolver::build_mat_null_space and ::solve                  *)

\* The PETSc the file is compiled against, as far as solve depends on it:
\* older than 3.3, from 3.3 up to but not including 3.6, 3.6 or newer.
PetscVersions == {"3.2", "3.5", "3.6"}
PETSC_VERSION_LESS_THAN_3_3(S) == S.petsc.version = "3.2"
PETSC_VERSION_LESS_THAN_3_6(S) == S.petsc.version \in {"3.2", "3.5"}

\* The vectors a subspace provider returns, and the Vecs build_mat_null_space
\* makes of them.  A Vec is held exactly, as a vector of integers times a
\* positive scalar whose square is num/den: normalizing divides by a square
\* root, which leaves the square of the scalar rational.
Coords == {-1, 0, 1}
Dot(a, b) == LET Sum[d \in 0..NDofs] == IF d = 0 THEN 0 ELSE Sum[d - 1] + a[d] * b[d]
             IN  Sum[NDofs]
VecCopy(v) == [dir |-> v, num |-> 1, den |-> 1]

\* VecNormalize: the Vec divided by its norm; PETSc leaves a Vec of norm
\* zero as it is.
VecNormalize(y) ==
  IF Dot(y.dir, y.dir) = 0
  THEN y
  ELSE [dir |-> y.dir, num |-> 1, den |-> Dot(y.dir, y.dir)]

\* VecMDot(y, n, xs, dots): dots[j] = y . xs[j], held as the dot product of
\* the integer vectors (the scalars of y and xs[j] are factors of it).
VecMDot(y, xs) == [j \in 1..Len(xs) |-> Dot(y.dir, xs[j].dir)]

\* Mutant of Negated: the dots keep their sign.
NotNegated(dots) == dots

\* for (j = 0; j < i; j++) dots[j] *= -1.;
Negated(dots) == [j \in 1..Len(dots) |-> 0 - dots[j]]

\* The product of the denominators of xs[1..n].
Dens(xs) ==
  LET P[n \in 0..Len(xs)] == IF n = 0 THEN 1 ELSE P[n - 1] * xs[n].den
  IN  P[Len(xs)]

\* VecMAXPY(y, n, dots, xs): y += sum_j dots[j] xs[j].  With the scalar of y
\* taken out, xs[j] contributes dots[j] * (num_j / den_j) times its integer
\* vector; all is brought over the common denominator Dens(xs).
VecMAXPY(y, dots, xs) ==
  LET B == Dens(xs)
      Acc[n \in 0..Len(xs)] ==
        IF n = 0
        THEN [d \in Dofs |-> B * y.dir[d]]
        ELSE [d \in Dofs |->
                Acc[n - 1][d] + dots[n] * xs[n].num * (B \div xs[n].den) * xs[n].dir[d]]
  IN  [dir |-> Acc[Len(xs)], num |-> y.num, den |-> y.den * B * B]

\* One turn of the loop: modes[i] is orthonormalized against modes[1..i-1].
orthonormalize_mode(modes, i) ==
  [modes EXCEPT ![i] =
     VecNormalize(VecMAXPY(modes[i],
                           Negated(VecMDot(modes[i], SubSeq(modes, 1, i - 1))),
                           SubSeq(modes, 1, i - 1)))]

\* The body of "if (sp.size())" up to MatNullSpaceCreate: the vectors are
\* copied, the first is normalized, each later one is orthonormalized
\* against those before it.
orthonormalize(sp) ==
  LET Loop[i \in 1..Len(sp)] ==
        IF i = 1
        THEN [[j \in 1..Len(sp) |-> VecCopy(sp[j])] EXCEPT ![1] = VecNormalize(@)]
        ELSE orthonormalize_mode(Loop[i - 1], i)
  IN  IF Len(sp) = 0 THEN << >> ELSE Loop[Len(sp)]

\* The provider of `role` is run (the object if there is one, else the
\* function) and returns inp.sp[role] vectors; a MatNullSpace is built from
\* them unless there are none.
build_mat_null_space(S, role) ==
  Then(IF S.solver[role \o "_object"]
       THEN Ev(S, role \o "_object(sp)")
       ELSE Ev(S, role \o "(sp)"),
       LAMBDA T : IF T.inp.sp[role] # 0 THEN Ev(T, "MatNullSpaceCreate") ELSE T)

\* Mutant of solve_subspace: the subspace is attached whatever the provider
\* returned.
solve_subspace_unconditional(S, role, setter) ==
  IF S.solver[role] \/ S.solver[role \o "_object"]
  THEN Then(build_mat_null_space(S, role),
            LAMBDA T : [Ev(T, setter) EXCEPT !.petsc.mat = @ \cup {role}])
  ELSE S

\* One of the three "if (this->X || this->X_object)" blocks of solve.
solve_subspace(S, role, setter) ==
  IF S.solver[role] \/ S.solver[role \o "_object"]
  THEN Then(build_mat_null_space(S, role),
            LAMBDA T : IF T.inp.sp[role] # 0
                       THEN [Ev(T, setter) EXCEPT !.petsc.mat = @ \cup {role}]
                       ELSE T)
  ELSE S

\* Mutant of solve_transpose_nullspace: the version is not looked at.
solve_transpose_nullspace_any_version(S) ==
  solve_subspace(S, "transpose_nullspace", "MatSetTransposeNullSpace")

\* The transpose null space, which needs PETSc >= 3.6.
solve_transpose_nullspace(S) ==
  IF S.solver.transpose_nullspace \/ S.solver.transpose_nullspace_object
  THEN IF PETSC_VERSION_LESS_THAN_3_6(S)
       THEN Ev(S, "libmesh_warning")
       ELSE solve_subspace(S, "transpose_nullspace", "MatSetTransposeNullSpace")
  ELSE S

\* SNESSetFunction, always.
solve_set_function(S) ==
  [OnSnes(S, "SNESSetFunction") EXCEPT !.petsc.snes.function = TRUE]

\* SNESSetJacobian, if there is something to call.
solve_set_jacobian(S) ==
  IF S.solver.jacobian \/ S.solver.jacobian_object
       \/ S.solver.residual_and_jacobian_object
  THEN [OnSnes(S, "SNESSetJacobian") EXCEPT !.petsc.snes.jacobian = TRUE]
  ELSE S

\* The three subspace blocks of solve, compiled in from PETSc 3.3 on.
solve_subspaces(S) ==
  IF PETSC_VERSION_LESS_THAN_3_3(S)
  THEN S
  ELSE Then(Then(solve_subspace(S, "nullspace", "MatSetNullSpace"),
                 solve_transpose_nullspace),
            LAMBDA T : solve_subspace(T, "nearnullspace", "MatSetNearNullSpace"))

\* SNESGetKSP, KSPSetTolerances, SNESSetTolerances, SNESSetFromOptions.
solve_tolerances(S) ==
  Then(Then(Then(OnSnes(S, "SNESGetKSP"),
                 LAMBDA T : Ev(T, "KSPSetTolerances")),
            LAMBDA T : OnSnes(T, "SNESSetTolerances")),
       LAMBDA T : OnSnes(T, "SNESSetFromOptions"))

solve_presolve(S) ==
  IF S.solver.user_presolve THEN Ev(S, "user_presolve(system)") ELSE S

solve_preconditioner(S) ==
  IF S.solver._preconditioner
  THEN [S EXCEPT !.trace = @ \o <<"preconditioner->set_matrix", "preconditioner->init">>]
  ELSE S

solve_configure(S) ==
  IF S.solver._solver_configuration THEN Ev(S, "configure_solver") ELSE S

\* SNESSolve is entered: the engine starts counting its iterations.
SNESSolve(S) == [OnSnes(S, "SNESSolve") EXCEPT !.petsc.snes.iter = 0]

\* Mutant of solve_enter: the pre-solve hook runs after the preconditioner
\* has been set up.
solve_enter_presolve_late(S) ==
  Then(Then(Then(Then(Then(Then(Then(Then(
    init(S, FALSE),
    solve_set_function),
    solve_set_jacobian),
    solve_subspaces),
    solve_tolerances),
    solve_preconditioner),
    solve_presolve),
    solve_configure),
    SNESSolve)

\* solve, up to and including the call of SNESSolve.
solve_enter(S) ==
  Then(Then(Then(Then(Then(Then(Then(Then(
    init(S, FALSE),
    solve_set_function),
    solve_set_jacobian),
    solve_subspaces),
    solve_tolerances),
    solve_presolve),
    solve_preconditioner),
    solve_configure),
    SNESSolve)

\* SNESSolve returns: the engine has left its answer in x (the system's
\* solution) and holds the reason it stopped for.
SNESSolve_return(S) ==
  [S EXCEPT !.mem.sol = S.inp.x, !.petsc.snes.reason = S.inp.reason,
            !.petsc.reported = << S.inp.reason >>]

\* SNESGetIterationNumber, SNESGetLinearSolveIterations.
solve_counts(S) ==
  [Then(OnSnes(S, "SNESGetIterationNumber"),
        LAMBDA T : OnSnes(T, "SNESGetLinearSolveIterations"))
     EXCEPT !.solver._n_linear_iterations = S.inp.lin_its,
            !.loc.n_iterations = S.petsc.snes.iter]

\* SNESGetFunction, VecNorm: the final residual norm is the engine's.
solve_residual_norm(S) ==
  [Then(OnSnes(S, "SNESGetFunction"), LAMBDA T : Ev(T, "VecNorm"))
     EXCEPT !.loc.final_residual_norm = S.inp.fnorm]

\* Mutant of solve_reason: a negative reason is raised as an error.
solve_reason_raises(S) ==
  IF S.petsc.snes.reason < 0
  THEN Fatal(OnSnes(S, "SNESGetConvergedReason"), "diverged")
  ELSE [OnSnes(S, "SNESGetConvergedReason")
          EXCEPT !.solver._reason = S.petsc.snes.reason,
                 !.solver.converged = TRUE]

\* Mutant of solve_reason: a reason of zero does not count as converged.
solve_reason_positive(S) ==
  [OnSnes(S, "SNESGetConvergedReason")
     EXCEPT !.solver._reason = S.petsc.snes.reason,
            !.solver.converged = (S.petsc.snes.reason > 0)]

\* SNESGetConvergedReason(_snes, &_reason); converged = (_reason >= 0);
solve_reason(S) ==
  [OnSnes(S, "SNESGetConvergedReason")
     EXCEPT !.solver._reason = S.petsc.snes.reason,
            !.solver.converged = (S.petsc.snes.reason >= 0)]

\* Mutant of solve_return: the handle is released before the norm and the
\* reason are read.
solve_return_clear_early(S) ==
  Then(Then(Then(Then(Then(
    SNESSolve_return(S),
    solve_counts),
    enforce_constraints_exactly),
    clear),
    solve_residual_norm),
    solve_reason)

\* solve, from the return of SNESSolve on.
solve_return(S) ==
  Then(Then(Then(Then(Then(
    SNESSolve_return(S),
    solve_counts),
    enforce_constraints_exactly),
    solve_residual_norm),
    solve_reason),
    clear)

\* Mutant of get_converged_reason: the engine is asked whatever the state of
\* the solver.
get_converged_reason_unguarded(S) ==
  IF S.solver._snes \in S.petsc.live
  THEN [OnSnes(S, "SNESGetConvergedReason")
          EXCEPT !.solver._reason = S.petsc.snes.reason]
  ELSE OnSnes(S, "SNESGetConvergedReason")

\* PetscNonlinearSolver::get_converged_reason: the engine is asked while the
\* solver is initialized; what is returned is _reason.
get_converged_reason(S) ==
  IF S.solver._is_initialized
  THEN [OnSnes(S, "SNESGetConvergedReason")
          EXCEPT !.solver._reason = S.petsc.snes.reason]
  ELSE S

\* PetscNonlinearSolver::print_converged_reason
print_converged_reason(S) ==
  Then(get_converged_reason(S), LAMBDA T : Ev(T, "libMesh::out"))

\* PetscNonlinearSolver::get_total_linear_iterations
get_total_linear_iterations(S) == S

---------------------------------------------------------------------------
(* TypeVector<Real>::operator== and operator!=                            *)

\* Coordinates are held in units of half a TOLERANCE, so that differences
\* below, at and above the tolerance all occur.
TOLERANCE == 2
Dims == {1, 2, 3}
Abs(x) == IF x < 0 THEN 0 - x ELSE x

\* Mutant of operator_eq: the bound is met, not undercut.
operator_eq_or_at(DIM, lhs, rhs) ==
  IF DIM = 1
  THEN Abs(lhs[1] - rhs[1]) <= TOLERANCE
  ELSE IF DIM = 2
  THEN (Abs(lhs[1] - rhs[1]) + Abs(lhs[2] - rhs[2])) <= 2 * TOLERANCE
  ELSE (Abs(lhs[1] - rhs[1]) + Abs(lhs[2] - rhs[2]) + Abs(lhs[3] - rhs[3]))
         <= 3 * TOLERANCE

\* Mutant of operator_eq: the sum is held against one TOLERANCE.
operator_eq_one_tolerance(DIM, lhs, rhs) ==
  IF DIM = 1
  THEN Abs(lhs[1] - rhs[1]) < TOLERANCE
  ELSE IF DIM = 2
  THEN (Abs(lhs[1] - rhs[1]) + Abs(lhs[2] - rhs[2])) < TOLERANCE
  ELSE (Abs(lhs[1] - rhs[1]) + Abs(lhs[2] - rhs[2]) + Abs(lhs[3] - rhs[3]))
         < TOLERANCE

\* The three "#if DIM == n" branches of operator==.
operator_eq(DIM, lhs, rhs) ==
  IF DIM = 1
  THEN Abs(lhs[1] - rhs[1]) < TOLERANCE
  ELSE IF DIM = 2
  THEN (Abs(lhs[1] - rhs[1]) + Abs(lhs[2] - rhs[2])) < 2 * TOLERANCE
  ELSE (Abs(lhs[1] - rhs[1]) + Abs(lhs[2] - rhs[2]) + Abs(lhs[3] - rhs[3]))
         < 3 * TOLERANCE

\* return (!(*this == rhs));
operator_ne(DIM, lhs, rhs) == ~operator_eq(DIM, lhs, rhs)

---------------------------------------------------------------------------
(* The actions.  F is the set of forms the user registers, V the set of    *)
(* values buffer entries take.                                             *)

NoCall == [fn |-> "none"]

\* The convergence-reason codes the engine reports: diverged, still
\* iterating, converged.
Reasons == {-1, 0, 1}

Roles == {"nullspace", "transpose_nullspace", "nearnullspace"}

\* The state after construction.  V: the values a constraint may require;
\* Old: the PETSc versions the file may be compiled against.
InitP(V, Old) ==
  /\ \E h \in 0..MaxHandles : solver = PetscNonlinearSolver(h)
  /\ \E old \in Old : petsc = PetscInit @@ [version |-> old]
  /\ \E c \in ConstraintSets(V) : sys = SystemInit(c)
  /\ mem = [sol |-> Zero]
  /\ trace = << >>
  /\ call = NoCall
  /\ err = "none"
  /\ pc = "idle"

\* The user's code assigns one of the public pointers: solver.f = ...
Register(f) ==
  /\ pc = "idle"
  /\ ~solver[f]
  /\ Cardinality(Registered(solver)) < MaxRegistered
  /\ solver' = [solver EXCEPT ![f] = TRUE]
  /\ mem' = [sol |-> mem.sol]
  /\ trace' = << >>
  /\ call' = NoCall
  /\ UNCHANGED <<petsc, sys, err, pc>>

\* ... or resets it to null.
Unregister(f) ==
  /\ pc = "idle"
  /\ solver[f]
  /\ solver' = [solver EXCEPT ![f] = FALSE]
  /\ mem' = [sol |-> mem.sol]
  /\ trace' = << >>
  /\ call' = NoCall
  /\ UNCHANGED <<petsc, sys, err, pc>>

\* The pointers are public: code the engine runs in mid-solve (a user
\* computation, a hook) may reset one between two callbacks.
UnregisterMidSolve(f) ==
  /\ pc = "solving"
  /\ solver[f]
  /\ solver' = [solver EXCEPT ![f] = FALSE]
  /\ mem' = [sol |-> mem.sol]
  /\ trace' = << >>
  /\ call' = NoCall
  /\ UNCHANGED <<petsc, sys, err, pc>>

\* NonlinearSolver::attach_preconditioner, of the base class: the
\* preconditioner object is attached, whatever the state of the solver.
attach_preconditioner == Register("_preconditioner")

\* The handle bound: a handler that may create a handle runs only while the
\* model has handles left.
HandlesLeft == solver._is_initialized \/ petsc.n_created < MaxHandles

CallInit ==
  /\ pc = "idle"
  /\ HandlesLeft
  /\ \E S \in {init(WorldWith([sol |-> mem.sol], NoInput), FALSE)} : Commit(S)
  /\ call' = [fn |-> "init"]
  /\ pc' = pc

CallClear ==
  /\ pc = "idle"
  /\ \E S \in {clear(WorldWith([sol |-> mem.sol], NoInput))} : Commit(S)
  /\ call' = [fn |-> "clear"]
  /\ pc' = pc

\* The solver goes out of scope: normally, or while a fatal error unwinds.
Destroy ==
  /\ pc \in {"idle", "aborted"}
  /\ \E S \in {destructor(WorldWith([sol |-> mem.sol], NoInput))} : Commit(S)
  /\ call' = NoCall
  /\ pc' = "destroyed"

SolveEnter ==
  /\ pc = "idle"
  /\ HandlesLeft
  /\ \E sp \in [Roles -> 0..MaxModes] :
       \* a provider that is not registered returns nothing
       /\ \A r \in Roles : sp[r] # 0 => solver[r] \/ solver[r \o "_object"]
       /\ \E S \in {solve_enter(WorldWith([sol |-> mem.sol], [sp |-> sp]))} :
            /\ Commit(S)
            /\ call' = [fn |-> "solve_enter", inp |-> S.inp]
  /\ pc' = "solving"

\* The engine completes a nonlinear iteration.
EngineIterate ==
  /\ pc = "solving"
  /\ petsc.snes.iter < MaxIter
  /\ petsc' = [petsc EXCEPT !.snes.iter = @ + 1]
  /\ mem' = [sol |-> mem.sol]
  /\ trace' = << >>
  /\ call' = NoCall
  /\ UNCHANGED <<solver, sys, err, pc>>

\* What a callback leaves behind: the buffers it was entered with and its
\* out-parameters, next to the state it committed.
Returned(fn, S0, S1) ==
  \E S \in {S1} :
  /\ Commit(S)
  /\ call' = [fn |-> fn, pre |-> S0.mem, pre_local |-> S0.sys.current_local_solution,
              inp |-> S0.inp, out0 |-> S0.out, out |-> S.out, seen |-> S.loc.seen]
  /\ pc' = IF Ok(S) THEN "returned" ELSE "aborted"

\* The engine takes what the callback returned and goes on; the buffers of
\* the call are its own again.
EngineResume ==
  /\ pc = "returned"
  /\ pc' = "solving"
  /\ mem' = [sol |-> mem.sol]
  /\ trace' = << >>
  /\ call' = NoCall
  /\ UNCHANGED <<solver, petsc, sys, err>>

\* The engine evaluates the residual at a trial point x, into r.
EngineResidual(V) ==
  /\ pc = "solving"
  /\ petsc.snes.function
  /\ \E x \in Vecs(V), r \in Vecs(V), contrib \in Vecs(V) :
       \E S0 \in {WorldWith([sol |-> mem.sol, x |-> x, r |-> r], [contrib |-> contrib])} :
         Returned("residual", S0, __libmesh_petsc_snes_residual(S0))

\* The engine evaluates the Jacobian at a trial point x, into jac and pc.
\* J: the buffers of the call besides x and pc.  solve hands the engine one
\* matrix as both jac and pc, and then there is none; an engine told by its
\* options to keep a true Jacobian of its own hands that in as jac.
EngineJacobianOn(V, J) ==
  /\ pc = "solving"
  /\ petsc.snes.jacobian
  /\ \E x \in Vecs(V), m \in Vecs(V), contrib \in Vecs(V), own \in J :
       \E S0 \in {WorldWith([sol |-> mem.sol, x |-> x, pc |-> m] @@ own,
                            [contrib |-> contrib])} :
         Returned("jacobian", S0, __libmesh_petsc_snes_jacobian(S0))

\* jac and pc are the one matrix solve registered.
OneMatrix == { << >> }
\* jac is that matrix, or a matrix of the engine's own.
OwnJacobian(V) == OneMatrix \cup { [jac |-> v] : v \in Vecs(V) }

EngineJacobian(V) == EngineJacobianOn(V, OneMatrix)

\* The line search proposes w = x - y and runs the post-check hook.  The
\* two flags come in with whatever the engine left in them; cy and cw are
\* what the user's post-check, if one runs, will report.
EnginePostcheck(V) ==
  /\ pc = "solving"
  /\ petsc.snes.postcheck
  /\ \E y \in Vecs(V), w \in Vecs(V), cy \in BOOLEAN, cw \in BOOLEAN, g \in BOOLEAN :
       /\ (cy \/ cw) => (solver.postcheck \/ solver.postcheck_object)
       /\ \E S0 \in {[WorldWith([sol |-> mem.sol, x |-> VAdd(w, y), y |-> y, w |-> w],
                              [changed_search_direction |-> cy, changed_new_soln |-> cw])
                      EXCEPT !.out = [changed_y |-> g, changed_w |-> g]]} :
            Returned("postcheck", S0, __libmesh_petsc_snes_postcheck(S0))

\* SNESSolve returns and solve runs to its end.  R: the reasons the engine
\* may end with; L: the linear iterations it may have taken.
SolveReturnWith(V, R, L) ==
  /\ pc = "solving"
  /\ \E x \in Vecs(V), reason \in R, lin_its \in L, fnorm \in V :
       \E S \in {solve_return(WorldWith([sol |-> mem.sol],
                     [x |-> x, reason |-> reason, lin_its |-> lin_its, fnorm |-> fnorm]))} :
         /\ Commit(S)
         /\ call' = [fn |-> "solve",
                     ret |-> <<S.loc.n_iterations, S.loc.final_residual_norm>>,
                     inp |-> S.inp,
                     pre |-> [iter |-> petsc.snes.iter,
                              number |-> solver._current_nonlinear_iteration_number]]
  /\ pc' = "idle"

\* The application reads the outcome of the last solve.
GetConvergedReason ==
  /\ pc = "idle"
  /\ \E S \in {get_converged_reason(WorldWith([sol |-> mem.sol], NoInput))} :
       /\ Commit(S)
       /\ call' = [fn |-> "get_converged_reason", ret |-> S.solver._reason]
  /\ pc' = pc

PrintConvergedReason ==
  /\ pc = "idle"
  /\ \E S \in {print_converged_reason(WorldWith([sol |-> mem.sol], NoInput))} :
       /\ Commit(S)
       /\ call' = [fn |-> "print_converged_reason", ret |-> S.solver._reason]
  /\ pc' = pc

GetTotalLinearIterations ==
  /\ pc = "idle"
  /\ \E S \in {get_total_linear_iterations(WorldWith([sol |-> mem.sol], NoInput))} :
       /\ Commit(S)
       /\ call' = [fn |-> "get_total_linear_iterations",
                   ret |-> S.solver._n_linear_iterations]
  /\ pc' = pc

SolveReturn(V) == SolveReturnWith(V, Reasons, 0..MaxLinIts)

\* A subspace provider has returned the vectors sp, and build_mat_null_space
\* makes the basis of the MatNullSpace of them (none, if there are no vectors).
BuildMatNullSpace ==
  /\ call.fn = "provider"
  /\ call' = [fn |-> "build_mat_null_space", sp |-> call.sp,
              modes |-> orthonormalize(call.sp)]
  /\ trace' = IF Len(call.sp) # 0 THEN << "MatNullSpaceCreate" >> ELSE << >>
  /\ UNCHANGED <<solver, petsc, sys, mem, err, pc>>

\* Two TypeVectors are compared.
OperatorEq ==
  /\ call.fn = "TypeVector"
  /\ call' = [call EXCEPT !.fn = "operator==",
                          !.ret = operator_eq(call.DIM, call.lhs, call.rhs)]
  /\ UNCHANGED <<solver, petsc, sys, mem, trace, err, pc>>

OperatorNe ==
  /\ call.fn = "TypeVector"
  /\ call' = [call EXCEPT !.fn = "operator!=",
                          !.ret = operator_ne(call.DIM, call.lhs, call.rhs)]
  /\ UNCHANGED <<solver, petsc, sys, mem, trace, err, pc>>

\* set_residual_zero_out(state) and set_jacobian_zero_out(state)
set_zero_out(flag) ==
  /\ pc = "idle"
  /\ \E state \in BOOLEAN :
       /\ solver[flag] # state
       /\ solver' = [solver EXCEPT ![flag] = state]
  /\ mem' = [sol |-> mem.sol]
  /\ trace' = << >>
  /\ call' = NoCall
  /\ UNCHANGED <<petsc, sys, err, pc>>

\* The user's assignments to the solver's public pointers.
User(F) ==
  \/ \E f \in F : Register(f)
  \/ \E f \in F : Unregister(f)

\* The calls the application makes on the solver.
Lifecycle(V) ==
  \/ CallInit
  \/ CallClear
  \/ Destroy
  \/ SolveEnter
  \/ SolveReturn(V)
  \/ GetConvergedReason
  \/ PrintConvergedReason
  \/ GetTotalLinearIterations

\* The engine calls back, and takes the result.
Callbacks(V) ==
  \/ EngineResidual(V)
  \/ EngineJacobian(V)
  \/ EnginePostcheck(V)
  \/ EngineResume

\* What the engine does inside SNESSolve.
Engine(V) == EngineIterate \/ Callbacks(V)

MidSolve(F) == \E f \in F : UnregisterMidSolve(f)

\* The forms init looks at, with one residual and one Jacobian form so that
\* the engine has something to call.
LifecycleForms == {"residual", "jacobian", "postcheck", "_preconditioner"}

\* The solver's whole life, with all buffers zero.
Init == InitP(NoVals, {"3.6"})
Next == User(LifecycleForms) \/ Lifecycle(NoVals) \/ Engine(NoVals)
Spec == Init /\ [][Next]_vars

\* The dispatch of the callbacks inside one solve: every callback form, all
\* buffers zero.
NextDispatch ==
  User(CallbackForms) \/ MidSolve(CallbackForms) \/ SolveEnter \/ Engine(NoVals)
SpecDispatch == Init /\ [][NextDispatch]_vars

\* The subspace providers of solve, for each PETSc version.
InitSubspace == InitP(NoVals, PetscVersions)
NextSubspace ==
  User(SubspaceForms) \/ SolveEnter \/ SolveReturnWith(NoVals, {1}, {0})
SpecSubspace == InitSubspace /\ [][NextSubspace]_vars

\* The data the callbacks move, inside one solve: one form per callback,
\* buffers with entries in Vals, either setting of the zero-out flags.
DataForms == {"residual", "jacobian", "postcheck"}
InitData == InitP(Vals, {"3.6"})
NextData ==
  \/ User(DataForms)
  \/ MidSolve(DataForms)
  \/ set_zero_out("_zero_out_residual")
  \/ set_zero_out("_zero_out_jacobian")
  \/ SolveEnter
  \/ Callbacks(Vals)
SpecData == InitData /\ [][NextData]_vars

\* The basis build_mat_null_space makes of what a provider returns: up to
\* MaxVectors vectors with coordinates in Coords.
InitModes ==
  /\ \E n \in 0..MaxVectors : \E sp \in [1..n -> [Dofs -> Coords]] :
       call = [fn |-> "provider", sp |-> sp]
  /\ solver = PetscNonlinearSolver(0)
  /\ petsc = PetscInit @@ [version |-> "3.6"]
  /\ sys = SystemInit(<< >>)
  /\ mem = [sol |-> Zero]
  /\ trace = << >>
  /\ err = "none"
  /\ pc = "idle"
NextModes == BuildMatNullSpace
SpecModes == InitModes /\ [][NextModes]_vars

\* The comparison of two TypeVectors, for each DIM the library is built
\* with and coordinates in 0..MaxCoord.
InitVector ==
  /\ \E d \in Dims : \E a \in [1..d -> 0..MaxCoord], b \in [1..d -> 0..MaxCoord] :
       call = [fn |-> "TypeVector", DIM |-> d, lhs |-> a, rhs |-> b, ret |-> FALSE]
  /\ solver = PetscNonlinearSolver(0)
  /\ petsc = PetscInit @@ [version |-> "3.6"]
  /\ sys = SystemInit(<< >>)
  /\ mem = [sol |-> Zero]
  /\ trace = << >>
  /\ err = "none"
  /\ pc = "idle"
NextVector == OperatorEq \/ OperatorNe
SpecVector == InitVector /\ [][NextVector]_vars

\* The steps of solve around SNESSolve: the hook, the preconditioner and the
\* solver configuration attached or not, init and clear called or not before.
OrderForms == {"user_presolve", "_solver_configuration", "jacobian"}
NextOrder ==
  \/ User(OrderForms)
  \/ attach_preconditioner
  \/ CallInit
  \/ CallClear
  \/ SolveEnter
  \/ SolveReturnWith(NoVals, {1}, {0})
SpecOrder == Init /\ [][NextOrder]_vars

\* The residual and Jacobian callbacks step by step: the engine's iterations,
\* buffers with entries in Vals, either setting of the zero-out flags, and
\* forms reset in mid-solve so that the configuration errors occur.
StepForms == {"residual", "jacobian"}
NextSteps ==
  \/ User(StepForms)
  \/ MidSolve(StepForms)
  \/ set_zero_out("_zero_out_residual")
  \/ set_zero_out("_zero_out_jacobian")
  \/ SolveEnter
  \/ EngineIterate
  \/ EngineResidual(Vals)
  \/ EngineJacobian(Vals)
  \/ EngineResume
SpecSteps == InitData /\ [][NextSteps]_vars

\* The Jacobian callback on the two matrices it is handed.
JacobianOnlyForms == {"jacobian"}
NextJacobian ==
  \/ User(JacobianOnlyForms)
  \/ set_zero_out("_zero_out_jacobian")
  \/ SolveEnter
  \/ EngineIterate
  \/ EngineJacobianOn(Vals, OwnJacobian(Vals))
  \/ EngineResume
SpecJacobian == InitData /\ [][NextJacobian]_vars

\* Whole solves on a solution with contents: one residual form, the engine's
\* iterations, and what SNESSolve leaves in the solution.
SolveForms == {"residual"}
NextSolve ==
  \/ User(SolveForms)
  \/ SolveEnter
  \/ EngineIterate
  \/ EngineResidual(NoVals)
  \/ EngineResume
  \/ SolveReturn(Vals)
SpecSolve == InitData /\ [][NextSolve]_vars


---------------------------------------------------------------------------
(* The properties.                                                         *)

Has(t, e) == \E i \in 1..Len(t) : t[i] = e
Count(t, e) == Cardinality({i \in 1..Len(t) : t[i] = e})
Created == 1..petsc.n_created
AfterCallback(fn) == call.fn = fn /\ pc \in {"returned", "aborted"}
ReturnedFrom(fn) == call.fn = fn /\ pc = "returned"

\* The order in which a callback tries the forms of its role, and what it
\* asks of each: the combined forms get a null for the output not wanted.
ResidualPrecedence ==
  << <<"residual", "residual(X,R)">>,
     <<"residual_object", "residual_object->residual(X,R)">>,
     <<"matvec", "matvec(X,&R,NULL)">>,
     <<"residual_and_jacobian_object",
       "residual_and_jacobian_object->residual_and_jacobian(X,&R,NULL)">> >>

JacobianPrecedence ==
  << <<"jacobian", "jacobian(X,PC)">>,
     <<"jacobian_object", "jacobian_object->jacobian(X,PC)">>,
     <<"matvec", "matvec(X,NULL,&PC)">>,
     <<"residual_and_jacobian_object",
       "residual_and_jacobian_object->residual_and_jacobian(X,NULL,&PC)">> >>

\* The one user call made is that of the first registered form of the order.
FirstRegisteredRan(order) ==
  \E i \in 1..Len(order) :
    /\ solver[order[i][1]]
    /\ \A j \in 1..(i - 1) : ~solver[order[j][1]]
    /\ UserCallsOf(trace) = << order[i][2] >>

NoneOf(order) == \A i \in 1..Len(order) : ~solver[order[i][1]]
BothCombined == solver.matvec /\ solver.residual_and_jacobian_object

\* C1: the engine handle is created only when none is live and destroyed
\* only when one is live: at most one handle is live at any time, the live
\* handle is the one the context holds exactly when the context is
\* initialized, no handle is destroyed twice, every handle no longer live
\* has been destroyed exactly once, and once the context is gone every
\* handle ever created has been.
C1_HandleLifecycle ==
  /\ Cardinality(petsc.live) <= 1
  /\ ~petsc.fault
  /\ petsc.live = IF solver._is_initialized THEN {solver._snes} ELSE {}
  /\ petsc.live \subseteq Created
  /\ \A h \in 1..MaxHandles :
       petsc.n_destroyed[h] = IF h \in Created \ petsc.live THEN 1 ELSE 0
  /\ pc = "destroyed" => petsc.live = {}

\* Two handles have been created and released, the second by the destructor.
C1_Witness ==
  /\ pc = "destroyed"
  /\ petsc.n_created = 2
  /\ petsc.n_destroyed[1] = 1 /\ petsc.n_destroyed[2] = 1
  /\ Has(trace, "SNESDestroy")

\* C2: a residual callback that returns to the engine has invoked exactly
\* one user computation, that of the first registered form in the order
\* residual function, residual object, combined function, combined object,
\* and a combined form was asked for the residual only.
C2_ResidualDispatch ==
  ReturnedFrom("residual") => FirstRegisteredRan(ResidualPrecedence)

\* A plain form and a combined form are both registered; the plain one ran.
C2_Witness ==
  /\ ReturnedFrom("residual")
  /\ solver.residual_object /\ solver.matvec
  /\ UserCallsOf(trace) = << "residual_object->residual(X,R)" >>

\* C3: the residual callback raises a fatal configuration error and invokes
\* no user computation when the residual function and the residual object
\* are both registered, when the combined function and the combined object
\* are both registered, and when none of the four forms is registered.
C3_ResidualConfigErrors ==
  /\ AfterCallback("residual") /\ solver.residual /\ solver.residual_object
       => /\ pc = "aborted"
          /\ err = "ERROR: cannot specify both a function and object to compute the Residual!"
          /\ UserCallsOf(trace) = << >>
  /\ AfterCallback("residual") /\ BothCombined
       => /\ pc = "aborted"
          /\ err \in {"ERROR: cannot specify both a function and object to compute the Residual!",
                      "ERROR: cannot specify both a function and object to compute the combined Residual & Jacobian!"}
          /\ UserCallsOf(trace) = << >>
  /\ AfterCallback("residual") /\ NoneOf(ResidualPrecedence)
       => /\ pc = "aborted"
          /\ err = "Error! Unable to compute residual and/or Jacobian!"
          /\ UserCallsOf(trace) = << >>

\* Both combined forms are registered next to a usable residual function:
\* the callback raised all the same.
C3_Witness ==
  /\ AfterCallback("residual")
  /\ solver.residual /\ BothCombined
  /\ pc = "aborted"
  /\ UserCallsOf(trace) = << >>

\* C4: the Jacobian callback dispatches to exactly one form in the order
\* Jacobian function, Jacobian object, combined function, combined object,
\* a combined form being asked for the Jacobian only, and raises a fatal
\* configuration error, invoking nothing, when the Jacobian function and
\* object are both registered, when the two combined forms are both
\* registered, and when none of the four is registered.
C4_JacobianDispatch ==
  /\ ReturnedFrom("jacobian") => FirstRegisteredRan(JacobianPrecedence)
  /\ AfterCallback("jacobian")
       /\ ((solver.jacobian /\ solver.jacobian_object) \/ BothCombined
             \/ NoneOf(JacobianPrecedence))
       => /\ pc = "aborted"
          /\ UserCallsOf(trace) = << >>
          /\ err = IF solver.jacobian /\ solver.jacobian_object
                   THEN "ERROR: cannot specify both a function and object to compute the Jacobian!"
                   ELSE IF BothCombined
                   THEN "ERROR: cannot specify both a function and object to compute the combined Residual & Jacobian!"
                   ELSE "Error! Unable to compute residual and/or Jacobian!"

\* The Jacobian object and the combined object are registered; the Jacobian
\* object ran.
C4_Witness ==
  /\ ReturnedFrom("jacobian")
  /\ solver.jacobian_object /\ solver.residual_and_jacobian_object
  /\ UserCallsOf(trace) = << "jacobian_object->jacobian(X,PC)" >>

\* The roles of the null-space providers whose both forms are registered.
AmbiguousRoles == {r \in Roles : solver[r] /\ solver[r \o "_object"]}

\* The provider of role r was run by the solve just entered.
ProviderRan(r) == Has(trace, r \o "(sp)") \/ Has(trace, r \o "_object(sp)")

\* C5: for every role, the null-space roles included, a function and an
\* object registered together are a configuration error raised when the
\* role is first run.  Here: a solve that runs the provider of a role with
\* both forms registered raises.
C5_BothFormsRaise ==
  \A r \in AmbiguousRoles : ProviderRan(r) => err # "none"

\* C5, what the code does: the object of a null-space role is run, the
\* function is not, and nothing is raised by that.
C5_ObjectSilentlyWins ==
  \A r \in AmbiguousRoles :
     ProviderRan(r) => Has(trace, r \o "_object(sp)") /\ ~Has(trace, r \o "(sp)")
                       /\ err = "none"

C5_Witness ==
  /\ pc = "solving"
  /\ "nullspace" \in AmbiguousRoles
  /\ Has(trace, "nullspace_object(sp)")
  /\ err = "none"

\* C6: when a callback returns to the engine the canonical solution is bound
\* to its own storage again: every swap the callback made was undone, the
\* post-check's early return, which swaps nothing, included.
C6_BindingRestored ==
  (call.fn \in {"residual", "jacobian", "postcheck"} /\ pc = "returned")
    => /\ sys.solution.vec = "sol"
       /\ Count(trace, "swap") % 2 = 0

\* A post-check that swapped w in, enforced the constraints and swapped back.
C6_Witness ==
  /\ ReturnedFrom("postcheck")
  /\ Count(trace, "swap") = 2
  /\ sys.solution.vec = "sol"

\* C7: a residual or Jacobian callback leaves the contents of the engine's
\* trial buffer and of the canonical solution as they were; the local
\* replica is refreshed from the trial values (with the constraints
\* enforced on it), and of the buffers of the call only the output changes.
C7_TrialAndSolutionUntouched ==
  (call.fn \in {"residual", "jacobian"} /\ pc = "returned")
    => /\ mem.x = call.pre.x
       /\ mem.sol = call.pre.sol
       /\ DOMAIN mem = DOMAIN call.pre
       /\ sys.current_local_solution = Enforced(sys.constraints, call.pre.x)

\* The trial point differs from the canonical solution, and a constraint
\* altered the replica.
C7_Witness ==
  /\ ReturnedFrom("residual")
  /\ mem.x # mem.sol
  /\ sys.current_local_solution # mem.x
  /\ sys.current_local_solution # call.pre_local
  /\ mem.r # call.pre.r

\* C8: with the zero-residual flag set the residual buffer holds, after the
\* callback, what the user computation wrote on zeros; with the flag unset
\* it holds what the computation accumulated on the values the buffer came
\* in with.
C8_ZeroResidualFlag ==
  ReturnedFrom("residual")
    => mem.r = IF solver._zero_out_residual
               THEN call.inp.contrib
               ELSE VAdd(call.pre.r, call.inp.contrib)

\* The flag is set and the buffer came in with values that are gone.
C8_Witness ==
  /\ ReturnedFrom("residual")
  /\ solver._zero_out_residual
  /\ call.pre.r # Zero
  /\ mem.r = Zero

\* The flag is unset and the computation added to the values that came in.
C8_WitnessUnset ==
  /\ ReturnedFrom("residual")
  /\ ~solver._zero_out_residual
  /\ call.pre.r # Zero
  /\ call.inp.contrib # Zero

\* C9: a post-check invocation with no constrained degree of freedom and no
\* user post-check registered returns with both flags false, having
\* wrapped, swapped or written no buffer and having left the canonical
\* solution and the local replica alone.
C9_PostcheckEarlyReturn ==
  (AfterCallback("postcheck") /\ sys.constraints = << >>
     /\ ~solver.postcheck /\ ~solver.postcheck_object)
    => /\ pc = "returned"
       /\ call.out = [changed_y |-> FALSE, changed_w |-> FALSE]
       /\ trace = << >>
       /\ mem = call.pre
       /\ sys.solution.vec = "sol"
       /\ sys.current_local_solution = call.pre_local

\* The flags came in set and the step is not zero.
C9_Witness ==
  /\ ReturnedFrom("postcheck")
  /\ sys.constraints = << >>
  /\ ~solver.postcheck /\ ~solver.postcheck_object
  /\ call.out0.changed_w /\ call.out0.changed_y
  /\ call.pre.y # Zero
  /\ ~call.out.changed_w /\ ~call.out.changed_y

\* C10: a post-check invocation on a system with at least one constrained
\* degree of freedom reports changed_w = true, whatever the user's
\* post-check reported and whether or not one is registered.
C10_ConstraintsReportChangedW ==
  (ReturnedFrom("postcheck") /\ sys.constraints # << >>)
    => call.out.changed_w

\* The user's post-check ran and reported nothing changed, w already met the
\* constraint, and changed_w is reported all the same.
C10_Witness ==
  /\ ReturnedFrom("postcheck")
  /\ sys.constraints # << >>
  /\ solver.postcheck
  /\ ~call.inp.changed_new_soln
  /\ mem.w = call.pre.w
  /\ call.out.changed_w

\* C11: after solve has returned (and for as long as no new handle has been
\* created) the stored reason is the code the engine ended the solve with,
\* converged is true exactly when that code is >= 0, and
\* get_converged_reason returns that code.
C11_ConvergedIffReasonNonNegative ==
  petsc.reported # << >>
    => /\ solver._reason = petsc.reported[1]
       /\ solver.converged <=> (petsc.reported[1] >= 0)
       /\ call.fn \in {"get_converged_reason", "print_converged_reason"}
            => call.ret = petsc.reported[1]

\* The engine diverged; get_converged_reason then returned the negative code.
C11_Witness ==
  /\ call.fn = "get_converged_reason"
  /\ petsc.reported = << -1 >>
  /\ call.ret = -1
  /\ ~solver.converged

\* The state solve leaves when it enters SNESSolve.
SolveEntered == pc = "solving" /\ Has(trace, "SNESSolve")

\* C12: solve registers the residual callback unconditionally, and the
\* Jacobian callback exactly when one of the forms the Jacobian callback
\* dispatches to is registered: Jacobian function, Jacobian object, combined
\* function (matvec), combined object.
C12_JacobianCallbackIffAnyForm ==
  SolveEntered
    => /\ petsc.snes.function
       /\ petsc.snes.jacobian <=> ~NoneOf(JacobianPrecedence)

\* C12, what the code does: the combined function alone does not get the
\* Jacobian callback registered.
C12_JacobianCallbackButForMatvec ==
  SolveEntered
    => /\ petsc.snes.function
       /\ petsc.snes.jacobian <=>
            (solver.jacobian \/ solver.jacobian_object
               \/ solver.residual_and_jacobian_object)

\* solve has entered the engine with matvec the only form registered, and
\* the engine has no Jacobian callback.
C12_Witness ==
  /\ SolveEntered
  /\ Registered(solver) = {"matvec"}
  /\ petsc.snes.function
  /\ ~petsc.snes.jacobian

\* C13: init and clear are idempotent.  An init on an initialized solver
\* creates no handle and leaves every field of the solver as it was (the one
\* engine call it may make is the attachment of the post-check hook); a
\* clear on a solver that is not initialized makes no engine call and
\* changes nothing.
C13_InitClearIdempotent ==
  [][ /\ (CallInit /\ solver._is_initialized)
         => /\ solver' = solver
            /\ petsc' = [petsc EXCEPT !.snes.postcheck = petsc'.snes.postcheck]
            /\ ~Has(trace', "SNESCreate")
            /\ UNCHANGED <<sys, err>> /\ mem'.sol = mem.sol
      /\ (CallClear /\ ~solver._is_initialized)
         => /\ trace' = << >>
            /\ UNCHANGED <<solver, petsc, sys, err>> /\ mem'.sol = mem.sol
    ]_vars

\* init has run on an initialized solver: all it did was attach the hook.
C13_Witness ==
  /\ call.fn = "init"
  /\ trace = << "SNESLineSearchSetPostCheck" >>
  /\ solver._is_initialized
  /\ petsc.n_created = 1 /\ petsc.live = {1}

\* clear has run on a solver cleared before.
C13_WitnessClear ==
  /\ call.fn = "clear"
  /\ trace = << >>
  /\ ~solver._is_initialized
  /\ petsc.n_destroyed[1] = 1

\* C14: whenever the solver is not initialized (freshly constructed, after
\* clear, after solve has returned) the current nonlinear iteration number
\* is 0; it is non-zero only between an init and the next clear.
C14_IterationNumberZeroWhenCleared ==
  ~solver._is_initialized => solver._current_nonlinear_iteration_number = 0

\* solve has returned from a solve during which the number was not zero.
C14_Witness ==
  /\ call.fn = "solve"
  /\ call.pre.number # 0
  /\ ~solver._is_initialized
  /\ solver._current_nonlinear_iteration_number = 0

\* C15: a solve the engine ends with a negative reason is not an error:
\* solve records the iteration counts, enforces the constraints on the
\* solution, releases the handle and returns the pair (iterations, final
\* residual norm), with converged false.
C15_DivergenceIsNotAnError ==
  (call.fn = "solve" /\ call.inp.reason < 0)
    => /\ err = "none" /\ pc = "idle"
       /\ ~solver.converged
       /\ solver._reason = call.inp.reason
       /\ call.ret = << call.pre.iter, call.inp.fnorm >>
       /\ solver._n_linear_iterations = call.inp.lin_its
       /\ Has(trace, "enforce_constraints_exactly(solution)")
       /\ mem.sol = Enforced(sys.constraints, call.inp.x)
       /\ Has(trace, "SNESDestroy")
       /\ ~solver._is_initialized /\ petsc.live = {}

\* The engine diverged after an iteration; the solution it left did not meet
\* the constraint, and does now.
C15_Witness ==
  /\ call.fn = "solve" /\ call.inp.reason < 0
  /\ call.ret[1] = 1
  /\ solver._n_linear_iterations = 1
  /\ mem.sol # call.inp.x
  /\ ~solver.converged
  /\ err = "none"

\* The PETSc call that attaches the subspace of a role to the matrix.
Setter ==
  [ nullspace |-> "MatSetNullSpace",
    transpose_nullspace |-> "MatSetTransposeNullSpace",
    nearnullspace |-> "MatSetNearNullSpace" ]

HasProvider(r) == solver[r] \/ solver[r \o "_object"]

\* C16: for each of the three subspace roles solve runs the provider only
\* if one is registered, and attaches a subspace to the Jacobian matrix only
\* if the provider ran and returned at least one vector; when it returned
\* none, nothing is attached and solve goes on into the engine.
C16_SubspaceAttachedOnlyIfNonEmpty ==
  call.fn = "solve_enter"
    => \A r \in Roles :
         /\ ProviderRan(r) => HasProvider(r)
         /\ Has(trace, Setter[r]) <=> (ProviderRan(r) /\ call.inp.sp[r] > 0)
         /\ Has(trace, Setter[r]) => r \in petsc.mat
         /\ (ProviderRan(r) /\ call.inp.sp[r] = 0)
              => Has(trace, "SNESSolve") /\ err = "none" /\ pc = "solving"

\* The providers of two roles ran; one returned nothing and got nothing
\* attached, the other returned a vector and got its subspace attached.
C16_Witness ==
  /\ call.fn = "solve_enter"
  /\ ProviderRan("nullspace") /\ call.inp.sp["nullspace"] = 0
  /\ ~Has(trace, "MatSetNullSpace") /\ "nullspace" \notin petsc.mat
  /\ ProviderRan("nearnullspace") /\ call.inp.sp["nearnullspace"] > 0
  /\ Has(trace, "MatSetNearNullSpace")
  /\ Has(trace, "SNESSolve")

TransposeUnsupported ==
  HasProvider("transpose_nullspace") /\ petsc.version \in {"3.2", "3.5"}

\* C18: when a transpose-null-space provider is registered and the PETSc
\* version does not support transpose null spaces, solve emits a warning,
\* does not run the provider, attaches nothing, goes on into the engine and
\* returns normally.
C18_TransposeUnsupportedWarns ==
  /\ (call.fn = "solve_enter" /\ TransposeUnsupported)
       => /\ Has(trace, "libmesh_warning")
          /\ ~ProviderRan("transpose_nullspace")
          /\ ~Has(trace, "MatSetTransposeNullSpace")
          /\ "transpose_nullspace" \notin petsc.mat
          /\ Has(trace, "SNESSolve") /\ err = "none"
  /\ (call.fn = "solve" /\ TransposeUnsupported)
       => err = "none" /\ pc = "idle"

\* C18, what the code does: the warning is compiled in from PETSc 3.3 on;
\* against an older PETSc the provider is skipped without a word.
C18_TransposeUnsupportedSkips ==
  /\ (call.fn = "solve_enter" /\ TransposeUnsupported)
       => /\ Has(trace, "libmesh_warning") <=> petsc.version = "3.5"
          /\ ~ProviderRan("transpose_nullspace")
          /\ ~Has(trace, "MatSetTransposeNullSpace")
          /\ "transpose_nullspace" \notin petsc.mat
          /\ Has(trace, "SNESSolve") /\ err = "none"
  /\ (call.fn = "solve" /\ TransposeUnsupported)
       => err = "none" /\ pc = "idle"

\* Against PETSc 3.5 the provider, which had a vector to return, was skipped
\* with a warning and solve went on.
C18_Witness ==
  /\ call.fn = "solve_enter" /\ TransposeUnsupported
  /\ petsc.version = "3.5"
  /\ call.inp.sp["transpose_nullspace"] > 0
  /\ Has(trace, "libmesh_warning")
  /\ Has(trace, "SNESSolve")

\* Against PETSc older than 3.3 the provider was skipped and nothing warned.
C18_WitnessSilent ==
  /\ call.fn = "solve_enter" /\ TransposeUnsupported
  /\ petsc.version = "3.2"
  /\ ~Has(trace, "libmesh_warning")
  /\ Has(trace, "SNESSolve")

\* The determinant of the n x n matrix M (a sequence of rows), expanded along
\* the first row.
RECURSIVE Det(_, _)
Det(M, n) ==
  IF n = 0 THEN 1
  ELSE LET Minor(k) == [r \in 1..(n - 1) |->
                          [c \in 1..(n - 1) |-> IF c < k THEN M[r + 1][c]
                                                        ELSE M[r + 1][c + 1]]]
           Term(k) == (IF k % 2 = 1 THEN 1 ELSE -1) * M[1][k] * Det(Minor(k), n - 1)
           Sum[k \in 0..n] == IF k = 0 THEN 0 ELSE Sum[k - 1] + Term(k)
       IN  Sum[n]

\* Vectors are linearly independent exactly when their Gram determinant is
\* not zero.
Independent(sp) ==
  Det([i \in 1..Len(sp) |-> [j \in 1..Len(sp) |-> Dot(sp[i], sp[j])]], Len(sp)) # 0

UnitNorm(y) == Dot(y.dir, y.dir) * y.num = y.den
Orthonormal(modes) ==
  /\ \A i \in 1..Len(modes) : UnitNorm(modes[i])
  /\ \A i, j \in 1..Len(modes) : i < j => Dot(modes[i].dir, modes[j].dir) = 0

Built == call.fn = "build_mat_null_space"

\* C17: for N >= 2 vectors returned by a subspace provider the basis handed
\* to the matrix has N vectors, pairwise orthogonal and each of unit norm.
C17_BasisOrthonormal ==
  (Built /\ Len(call.sp) >= 2)
    => Len(call.modes) = Len(call.sp) /\ Orthonormal(call.modes)

\* C17, amended: for N >= 2 linearly independent vectors the basis has N
\* vectors, pairwise orthogonal and each of unit norm; and however many
\* vectors there are, every vector of the basis that is not zero is of unit
\* norm.
C17_BasisOrthonormalIfIndependent ==
  Built
    => /\ Len(call.modes) = Len(call.sp)
       /\ (Len(call.sp) >= 2 /\ Independent(call.sp)) => Orthonormal(call.modes)
       /\ \A i \in 1..Len(call.modes) :
            UnitNorm(call.modes[i]) \/ call.modes[i].dir = Zero

\* Two independent vectors that were not orthogonal, and are now.
C17_Witness ==
  /\ Built /\ Len(call.sp) = 2
  /\ Independent(call.sp)
  /\ Dot(call.sp[1], call.sp[2]) # 0
  /\ Orthonormal(call.modes)

Diff(i) == Abs(call.lhs[i] - call.rhs[i])
SumOfDiffs ==
  LET Sum[i \in 0..call.DIM] == IF i = 0 THEN 0 ELSE Sum[i - 1] + Diff(i)
  IN  Sum[call.DIM]
AllDiffsBelowTolerance == \A i \in 1..call.DIM : Diff(i) < TOLERANCE

\* C19: for real scalars and DIM in {1,2,3}, two vectors compare equal under
\* == exactly when every coordinate difference is below TOLERANCE.
C19_EqualIffAllDiffsBelowTolerance ==
  call.fn = "operator==" => (call.ret <=> AllDiffsBelowTolerance)

\* C19, amended: when every coordinate difference is below TOLERANCE the
\* vectors compare equal; when they compare equal every coordinate
\* difference is below DIM x TOLERANCE; the two are the same for DIM = 1.
C19_EqualIfAllDiffsBelowTolerance ==
  call.fn = "operator=="
    => /\ AllDiffsBelowTolerance => call.ret
       /\ call.ret => \A i \in 1..call.DIM : Diff(i) < call.DIM * TOLERANCE
       /\ call.DIM = 1 => (call.ret <=> AllDiffsBelowTolerance)

\* Two vectors of DIM 3 that compare equal with one coordinate a whole
\* TOLERANCE or more apart.
C19_Witness ==
  /\ call.fn = "operator==" /\ call.DIM = 3
  /\ call.ret
  /\ \E i \in 1..3 : Diff(i) >= TOLERANCE

\* C20: for real scalars and DIM = N in {1,2,3}, == returns true exactly
\* when the sum of the absolute coordinate differences is strictly less than
\* N x TOLERANCE, and != returns the negation of ==.
C20_EqualIffSumBelowNTolerance ==
  /\ call.fn = "operator==" => (call.ret <=> SumOfDiffs < call.DIM * TOLERANCE)
  /\ call.fn = "operator!=" => (call.ret <=> ~(SumOfDiffs < call.DIM * TOLERANCE))

\* The sum of the differences is exactly N x TOLERANCE: not equal.
C20_Witness ==
  /\ call.fn = "operator==" /\ call.DIM = 2
  /\ SumOfDiffs = 2 * TOLERANCE
  /\ ~call.ret

\* Every a on the trace t comes before every b on it.
Precedes(t, a, b) == \A i, j \in 1..Len(t) : (t[i] = a /\ t[j] = b) => i < j
UserPostcheckRegistered == solver.postcheck \/ solver.postcheck_object
UserPostcheckRan == \E e \in PostcheckCalls : Has(trace, e)

\* C21: when the post-check returns to the engine, changed_y is the flag the
\* user's post-check reported (false when none is registered) and changed_w
\* is the user's new-point flag or-ed with "the system has a constrained
\* degree of freedom"; with constraints the enforcement on the proposed point
\* runs once, after the user's post-check, so w ends as what the user left
\* with the constraints enforced on it.
C21_PostcheckOutputs ==
  ReturnedFrom("postcheck")
    => /\ call.out.changed_y = call.inp.changed_search_direction
       /\ ~UserPostcheckRegistered => ~call.out.changed_y /\ ~UserPostcheckRan
       /\ UserPostcheckRegistered => UserPostcheckRan
       /\ call.out.changed_w
            = (call.inp.changed_new_soln \/ sys.constraints # << >>)
       /\ sys.constraints # << >>
            => /\ Count(trace, "enforce_constraints_exactly(solution)") = 1
               /\ \A e \in PostcheckCalls :
                    Precedes(trace, e, "enforce_constraints_exactly(solution)")
               /\ mem.w = Enforced(sys.constraints,
                                   IF call.inp.changed_new_soln
                                   THEN VAdd(call.pre.w, Ones) ELSE call.pre.w)
       /\ sys.constraints = << >>
            => ~Has(trace, "enforce_constraints_exactly(solution)")

\* The user's post-check changed the step and the new point, moving the
\* constrained entry off its value; the enforcement that followed put it back.
C21_Witness ==
  /\ ReturnedFrom("postcheck")
  /\ sys.constraints # << >>
  /\ UserPostcheckRan
  /\ call.inp.changed_search_direction /\ call.inp.changed_new_soln
  /\ call.out.changed_y /\ call.out.changed_w
  /\ VAdd(call.pre.w, Ones)[1] # sys.constraints[1]
  /\ mem.w[1] = sys.constraints[1]

\* The steps of solve before the engine runs, in the order claimed.
StepsBeforeSolve ==
  << "SNESSetFunction", "SNESSetJacobian", "KSPSetTolerances", "SNESSetTolerances",
     "user_presolve(system)", "preconditioner->set_matrix", "configure_solver",
     "SNESSolve" >>

\* On the trace t, e is followed at once by f.
FollowedBy(t, e, f) == \A i \in 1..Len(t) : t[i] = e => (i < Len(t) /\ t[i + 1] = f)

\* C22: within one solve the steps before the engine's solve happen in this
\* order, each at most once: the callbacks are registered and the tolerances
\* set, then the pre-solve hook runs if one is registered, then the
\* preconditioner, if attached, is bound to the Jacobian matrix and
\* initialized right after, then the solver configuration, if attached,
\* overrides the options, then SNESSolve is called, last of all.
C22_StepsBeforeSolveInOrder ==
  call.fn = "solve_enter"
    => /\ \A i, j \in 1..Len(StepsBeforeSolve) :
            i < j => Precedes(trace, StepsBeforeSolve[i], StepsBeforeSolve[j])
       /\ \A i \in 1..Len(StepsBeforeSolve) : Count(trace, StepsBeforeSolve[i]) <= 1
       /\ Count(trace, "SNESSetFunction") = 1
       /\ Count(trace, "SNESSetJacobian") = IF solver.jacobian THEN 1 ELSE 0
       /\ Count(trace, "SNESSetTolerances") = 1
       /\ Count(trace, "user_presolve(system)") = IF solver.user_presolve THEN 1 ELSE 0
       /\ Count(trace, "preconditioner->set_matrix") = IF solver._preconditioner THEN 1 ELSE 0
       /\ FollowedBy(trace, "preconditioner->set_matrix", "preconditioner->init")
       /\ Count(trace, "configure_solver") = IF solver._solver_configuration THEN 1 ELSE 0
       /\ trace[Len(trace)] = "SNESSolve"

\* A solve with the hook, the preconditioner and the solver configuration
\* all attached.
C22_Witness ==
  /\ call.fn = "solve_enter"
  /\ solver.user_presolve /\ solver._preconditioner /\ solver._solver_configuration
  /\ Has(trace, "user_presolve(system)")
  /\ Has(trace, "preconditioner->set_matrix")
  /\ Has(trace, "configure_solver")
  /\ Has(trace, "SNESSolve")

\* The steps of solve after the engine has returned, in the order claimed.
StepsAfterSolve ==
  << "SNESGetIterationNumber", "SNESGetLinearSolveIterations",
     "enforce_constraints_exactly(solution)",
     "SNESGetFunction", "VecNorm", "SNESGetConvergedReason",
     "SNESDestroy" >>

\* C23: after SNESSolve has returned, solve records the iteration count and
\* the linear-iteration count, then enforces the constraints on the system's
\* solution exactly once, then reads the final residual norm and the reason
\* from the engine, and only then releases the handle; when solve has
\* returned the solver is not initialized.
C23_StepsAfterSolveInOrder ==
  call.fn = "solve"
    => /\ trace = StepsAfterSolve
       /\ Count(trace, "enforce_constraints_exactly(solution)") = 1
       /\ mem.sol = Enforced(sys.constraints, call.inp.x)
       /\ call.ret = << call.pre.iter, call.inp.fnorm >>
       /\ solver._n_linear_iterations = call.inp.lin_its
       /\ solver._reason = call.inp.reason
       /\ ~petsc.fault
       /\ ~solver._is_initialized /\ petsc.live = {}

\* The engine left a solution that did not meet the constraint; solve has
\* returned with the constraint enforced and the handle released.
C23_Witness ==
  /\ call.fn = "solve"
  /\ mem.sol # call.inp.x
  /\ call.ret[1] = 1 /\ solver._n_linear_iterations = 1
  /\ Has(trace, "SNESDestroy")
  /\ ~solver._is_initialized

\* The steps of a callback up to the zeroing of its output.
Synchronized ==
  << "SNESGetIterationNumber", "swap", "update", "swap",
     "enforce_constraints_exactly(local)" >>

\* C24: a residual callback stores the engine's iteration count on the
\* solver, refreshes the local replica from the trial buffer, enforces the
\* constraints on the replica (never on the trial buffer), zeroes R if the
\* flag is set, runs the user's computation on the replica and closes R, in
\* this order; the user's computation sees the engine's current iteration
\* count and a replica on which the constraints hold.
C24_ResidualSteps ==
  ReturnedFrom("residual")
    => /\ Len(UserCallsOf(trace)) = 1
       /\ trace = Synchronized
                    \o (IF solver._zero_out_residual THEN << "R.zero" >> ELSE << >>)
                    \o UserCallsOf(trace)
                    \o << "R.close" >>
       /\ call.seen.iter = petsc.snes.iter
       /\ call.seen.X = Enforced(sys.constraints, call.pre.x)
       /\ call.seen.out = IF solver._zero_out_residual THEN Zero ELSE call.pre.r
       /\ mem.x = call.pre.x
       /\ solver._current_nonlinear_iteration_number = petsc.snes.iter

\* After an iteration of the engine, at a trial point that did not meet the
\* constraint, with values in R that were zeroed: the user's computation saw
\* iteration 1, the constraint enforced and R zero.
C24_Witness ==
  /\ ReturnedFrom("residual")
  /\ petsc.snes.iter = 1 /\ call.seen.iter = 1
  /\ call.seen.X # call.pre.x
  /\ call.pre.r # Zero /\ call.seen.out = Zero
  /\ trace[Len(trace)] = "R.close"

\* C25: a Jacobian callback attaches the degree-of-freedom layout to both
\* matrices before the user's computation runs, clears the preconditioning
\* matrix, and that one only, when the zero-Jacobian flag is set, hands the
\* user's computation the preconditioning matrix, and closes both matrices
\* after the computation and before it returns.
C25_JacobianSteps ==
  ReturnedFrom("jacobian")
    => /\ Len(UserCallsOf(trace)) = 1
       /\ trace = << "SNESGetIterationNumber", "PC.attach_dof_map", "Jac.attach_dof_map",
                     "swap", "update", "swap", "enforce_constraints_exactly(local)" >>
                    \o (IF solver._zero_out_jacobian THEN << "PC.zero" >> ELSE << >>)
                    \o UserCallsOf(trace)
                    \o << "PC.close", "Jac.close" >>
       /\ call.seen.out = IF solver._zero_out_jacobian THEN Zero ELSE call.pre.pc
       /\ mem.pc = VAdd(call.seen.out, call.inp.contrib)
       /\ "jac" \in DOMAIN call.pre => mem.jac = call.pre.jac
       /\ DOMAIN mem = DOMAIN call.pre

\* The flag is set and both matrices came in with values: those of the
\* preconditioning matrix are gone, those of the engine's own Jacobian are not.
C25_Witness ==
  /\ ReturnedFrom("jacobian")
  /\ solver._zero_out_jacobian
  /\ "jac" \in DOMAIN call.pre
  /\ call.pre.pc # Zero /\ call.pre.jac # Zero
  /\ mem.pc = call.inp.contrib /\ mem.jac = call.pre.jac
  /\ trace[Len(trace)] = "Jac.close"

\* C26: every init call, the one that creates the handle or a later one,
\* attaches the post-check hook exactly when a user post-check (function or
\* object) is registered at the time; the hook comes to be attached in no
\* other way, and the engine invokes the post-check callback only with the
\* hook attached to the live handle, constraints or no constraints.
C26_PostcheckHookIffRegistered ==
  [][ /\ CallInit
         => /\ Has(trace', "SNESLineSearchSetPostCheck") <=> UserPostcheckRegistered
            /\ UserPostcheckRegistered => petsc'.snes.postcheck
            /\ ~UserPostcheckRegistered
                 => petsc'.snes.postcheck = (solver._is_initialized /\ petsc.snes.postcheck)
      /\ (petsc'.snes.postcheck /\ ~petsc.snes.postcheck)
         => /\ UserPostcheckRegistered
            /\ Has(trace', "SNESLineSearchSetPostCheck")
      /\ call'.fn = "postcheck" => petsc.snes.postcheck /\ solver._is_initialized
    ]_vars

\* On a system with a constraint, an init on an initialized solver has
\* attached the hook for a post-check registered after the handle was made.
C26_Witness ==
  /\ call.fn = "init"
  /\ sys.constraints # << >>
  /\ solver.postcheck
  /\ Has(trace, "SNESLineSearchSetPostCheck") /\ ~Has(trace, "SNESCreate")
  /\ petsc.snes.postcheck

\* The calls made on the handle _snes.
EngineOps ==
  { "SNESSetOptionsPrefix", "SNESSetDM", "SNESMonitorSet", "SNESGetKSP",
    "SNESLineSearchSetPostCheck", "SNESSetFunction", "SNESSetJacobian",
    "SNESSetTolerances", "SNESSetFromOptions", "SNESSolve",
    "SNESGetIterationNumber", "SNESGetLinearSolveIterations", "SNESGetFunction",
    "SNESGetConvergedReason" }

\* C27: over any sequence of init, clear, solve, get_converged_reason and
\* print_converged_reason no engine call is made on a handle that is absent
\* or already destroyed: a call on the handle is made after the SNESCreate of
\* the same operation or on the live handle of an initialized solver, and
\* before the SNESDestroy of the same operation; get_converged_reason asks
\* the engine exactly when the solver is initialized and otherwise returns
\* the stored reason, leaving everything as it is.
C27_NoEngineCallWithoutHandle ==
  [][ /\ ~petsc'.fault
      /\ \A e \in EngineOps :
           /\ Precedes(trace', e, "SNESDestroy")
           /\ Precedes(trace', "SNESCreate", e)
           /\ (Has(trace', e) /\ ~Has(trace', "SNESCreate"))
                => solver._is_initialized /\ solver._snes \in petsc.live
      /\ (GetConvergedReason \/ PrintConvergedReason)
           => /\ Has(trace', "SNESGetConvergedReason") <=> solver._is_initialized
              /\ ~solver._is_initialized
                   => call'.ret = solver._reason /\ UNCHANGED <<solver, petsc>>
    ]_vars

\* get_converged_reason after a solve has returned: the handle is gone, the
\* engine was not asked, and the reason returned is the one solve stored.
C27_Witness ==
  /\ call.fn = "get_converged_reason"
  /\ ~solver._is_initialized
  /\ petsc.n_destroyed[1] = 1 /\ petsc.live = {}
  /\ trace = << >>
  /\ petsc.reported # << >> /\ call.ret = petsc.reported[1]

\* The fields of the solver clear may change.
ClearedFields == {"_is_initialized", "_snes", "_current_nonlinear_iteration_number"}

\* C28: clear changes only the initialized flag, the handle and the current
\* iteration number; the stored reason, the linear-iteration count, the
\* converged flag, the zero-out flags and every registered form stay.  The
\* linear-iteration count is written by solve alone and the stored reason by
\* solve and by a reason query on an initialized solver, so after a solve and
\* any number of clears get_total_linear_iterations and get_converged_reason
\* return what that solve recorded.
C28_ClearKeepsOutcome ==
  [][ /\ CallClear
         => /\ \A f \in DOMAIN solver \ ClearedFields : solver'[f] = solver[f]
            /\ ~solver'._is_initialized
            /\ UNCHANGED <<sys, err>> /\ mem'.sol = mem.sol
      /\ call'.fn = "solve"
         => /\ solver'._n_linear_iterations = call'.inp.lin_its
            /\ solver'._reason = call'.inp.reason
            /\ solver'.converged = (call'.inp.reason >= 0)
      /\ solver'._n_linear_iterations # solver._n_linear_iterations
         => call'.fn = "solve"
      /\ solver'._reason # solver._reason
         => \/ call'.fn = "solve"
            \/ /\ call'.fn \in {"get_converged_reason", "print_converged_reason"}
               /\ solver._is_initialized
      /\ solver'.converged # solver.converged => call'.fn = "solve"
      /\ GetTotalLinearIterations
         => call'.ret = solver._n_linear_iterations /\ solver' = solver
      /\ (GetConvergedReason /\ ~solver._is_initialized)
         => call'.ret = solver._reason /\ solver' = solver
    ]_vars

\* A solve diverged after a linear iteration; the solver was initialized
\* again and cleared: the reason and the count of that solve are still there.
C28_Witness ==
  /\ call.fn = "clear"
  /\ Has(trace, "SNESDestroy")
  /\ petsc.n_created = 2
  /\ solver._n_linear_iterations = 1
  /\ solver._reason = -1 /\ ~solver.converged

Raised(fn) == call.fn = fn /\ pc = "aborted"

\* C29: the residual and Jacobian callbacks check the configuration only
\* after they have synchronized and zeroed.  When one raises a configuration
\* error no user computation has run and the output has not been closed,
\* but the solver's iteration number has been overwritten, the local replica
\* has been refreshed from the trial point and had the constraints enforced,
\* and the output has been cleared if the zero flag is set; the system's
\* solution is bound to its own storage again.
C29_ConfigErrorAfterSync ==
  /\ (Raised("residual") \/ Raised("jacobian"))
       => /\ err # "none"
          /\ UserCallsOf(trace) = << >>
          /\ \A e \in {"R.close", "PC.close", "Jac.close"} : ~Has(trace, e)
          /\ solver._current_nonlinear_iteration_number = petsc.snes.iter
          /\ sys.current_local_solution = Enforced(sys.constraints, call.pre.x)
          /\ sys.solution.vec = "sol"
          /\ mem.x = call.pre.x /\ mem.sol = call.pre.sol
  /\ Raised("residual")
       => /\ mem.r = IF solver._zero_out_residual THEN Zero ELSE call.pre.r
          /\ trace = Synchronized
                       \o (IF solver._zero_out_residual THEN << "R.zero" >> ELSE << >>)
  /\ Raised("jacobian")
       => /\ mem.pc = IF solver._zero_out_jacobian THEN Zero ELSE call.pre.pc
          /\ Has(trace, "PC.zero") <=> solver._zero_out_jacobian
          /\ Count(trace, "swap") = 2
          /\ Has(trace, "enforce_constraints_exactly(local)")

\* A residual callback raised for want of a form to call, after an
\* iteration, at a trial point off the constraint and with values in R: the
\* number is 1, the replica is new and R is zero.
C29_Witness ==
  /\ Raised("residual")
  /\ err = "Error! Unable to compute residual and/or Jacobian!"
  /\ solver._current_nonlinear_iteration_number = 1
  /\ sys.current_local_solution # call.pre_local
  /\ sys.current_local_solution # call.pre.x
  /\ call.pre.r # Zero /\ mem.r = Zero

\* C30: every solve that runs with a preconditioner object attached enters
\* SNESSolve with the engine's linear solver set to use that object as its
\* shell preconditioner, whatever init, clear, attachment and solve calls
\* came before, an attachment after an explicit init included.
C30_ShellPreconditionerSet ==
  (call.fn = "solve_enter" /\ solver._preconditioner) => petsc.snes.shell_pc

\* C30, what the code does: the shell preconditioner is set by the init that
\* creates the handle and by nothing else, so a solve with a preconditioner
\* attached has it set exactly when it creates the handle itself or the
\* handle it finds had it set at its creation.
C30_ShellPreconditionerSetAtCreation ==
  [][ /\ (SolveEnter /\ solver._preconditioner)
         => petsc'.snes.shell_pc
              = (IF solver._is_initialized THEN petsc.snes.shell_pc ELSE TRUE)
      /\ (petsc'.snes.shell_pc /\ ~petsc.snes.shell_pc)
         => Has(trace', "SNESCreate") /\ solver._preconditioner
    ]_vars

\* A solve entered SNESSolve on a handle made before the preconditioner was
\* attached: the preconditioner was bound to the matrix and initialized, and
\* the engine knows nothing of it.
C30_Witness ==
  /\ call.fn = "solve_enter"
  /\ solver._preconditioner
  /\ ~Has(trace, "SNESCreate")
  /\ Has(trace, "preconditioner->set_matrix")
  /\ Has(trace, "SNESSolve")
  /\ ~petsc.snes.shell_pc

=============================================================================
